---- MODULE Spec2Model ----
(***************************************************************************)
(* Area CRUD handlers of api/routers/areas.py over the section-indexed     *)
(* config store, the per-area occupancy-rule sidecar files and the         *)
(* per-area log/config directories.                                        *)
(*                                                                         *)
(* Strings are sequences of one-character strings, so that upper(),        *)
(* split(",") and ",".join() are computed and not assumed.                 *)
(***************************************************************************)
EXTENDS Integers, Sequences, FiniteSets, TLC

VARIABLES
    config,    \* the config store: sections in dict order, each [prefix, n, sec]
    sidecar,   \* area id -> the occupancy-rule JSON file at its config path
    ruledirs,  \* area ids whose sidecar parent directory exists
    logdirs,   \* area ids with a directory under AreaLogDirectory
    confdirs,  \* area ids with a directory under AreaConfigDirectory
    last,      \* the last completed request and how it ended
    pc,        \* position of each concurrently served request
    loc        \* locals of each concurrently served request

vars == <<config, sidecar, ruledirs, logdirs, confdirs, last, pc, loc>>

disk == <<config, sidecar, ruledirs, logdirs, confdirs>>

\* ------------------------------------------------------------------ bounds

\* Occupancy-rule lists a payload may carry are <<1>> .. <<MaxRules>>.
MaxRules == 2

\* ----------------------------------------------------------------- strings

Range(s) == {s[i] : i \in 1..Len(s)}

UpperChar(c) ==
    CASE c = "a" -> "A"
      [] c = "b" -> "B"
      [] c = "c" -> "C"
      [] c = "l" -> "L"
      [] c = "z" -> "Z"
      [] OTHER -> c

\* str.upper()
Upper(s) == [i \in 1..Len(s) |-> UpperChar(s[i])]

\* position of the first sep in s at or after i, Len(s)+1 when there is none
RECURSIVE FindSep(_, _, _)
FindSep(s, sep, i) ==
    IF i > Len(s) THEN Len(s) + 1
    ELSE IF s[i] = sep THEN i
    ELSE FindSep(s, sep, i + 1)

\* str.split(sep): "" gives [""], "a," gives ["a", ""]
RECURSIVE Split(_, _)
Split(s, sep) ==
    LET k == FindSep(s, sep, 1) IN
    IF k > Len(s) THEN <<s>>
    ELSE <<SubSeq(s, 1, k - 1)>> \o Split(SubSeq(s, k + 1, Len(s)), sep)

\* sep.join(list)
RECURSIVE Join(_, _)
Join(list, sep) ==
    IF list = <<>> THEN <<>>
    ELSE IF Len(list) = 1 THEN list[1]
    ELSE list[1] \o <<sep>> \o Join(Tail(list), sep)

\* ------------------------------------------------------------ input domains

ALL_AREAS == <<"A", "L", "L">>

\* ids a stored area can have, and the spellings of the reserved id
PlainIds == {<<"b">>, <<"B">>}
WideIds == {<<"b">>, <<"B">>, <<"a", "l">>}
ReservedIds == {<<"A", "L", "L">>, <<"a", "l", "l">>, <<"A", "l", "l">>}
AllIds == WideIds \cup ReservedIds

\* the camera sections of the store (fixed while areas are edited)
Sources == <<<<"a">>, <<"b">>>>

\* camera lists a payload may carry: known ids, unknown ids, an empty entry
CameraLists ==
    { <<"a">>, <<"a", ",", "b">>, <<"a", ",", "z">>, <<"z", ",">>, <<>> }

NoRules == <<>>
RuleLists == {<<r>> : r \in 1..MaxRules}

\* ------------------------------------------------------------ config store

SectionKey(prefix, n) == [prefix |-> prefix, n |-> n]

KeyOf(entry) == SectionKey(entry.prefix, entry.n)

\* [x for x in config_dict.keys() if x.startswith(prefix)], as entries
SectionsOf(conf, prefix) ==
    LET Has(e) == e.prefix = prefix IN SelectSeq(conf, Has)

\* Area section -> area resource
map_section_from_config(entry) ==
    [id |-> entry.sec.Id, cameras |-> entry.sec.Cameras]

\* area resource (occupancy rules already removed) -> Area section
map_to_config_file_format(area) ==
    [Id |-> area.id, Cameras |-> area.cameras]

\* the areas of a store, in store order
AreasOf(conf) ==
    LET secs == SectionsOf(conf, "Area") IN
    [i \in 1..Len(secs) |-> map_section_from_config(secs[i])]

get_areas == AreasOf(config)

AreaIdsOf(conf) == [i \in 1..Len(AreasOf(conf)) |-> AreasOf(conf)[i].id]

\* ids of the cameras of a store, in store order
CameraIdsOf(conf) ==
    LET secs == SectionsOf(conf, "Source") IN
    [i \in 1..Len(secs) |-> secs[i].sec.Id]

\* config_dict[key] = sec: in place when the key exists, appended otherwise
SetSection(conf, key, sec) ==
    IF \E i \in 1..Len(conf) : KeyOf(conf[i]) = key
    THEN [i \in 1..Len(conf) |->
            IF KeyOf(conf[i]) = key THEN [conf[i] EXCEPT !.sec = sec] ELSE conf[i]]
    ELSE Append(conf, [prefix |-> key.prefix, n |-> key.n, sec |-> sec])

\* variant: the first area section is popped whatever the index
PopSection_First(conf, index) ==
    LET Keep(e) == KeyOf(e) # SectionKey("Area", 0) IN SelectSeq(conf, Keep)

\* config_dict.pop(f"Area_{index}")
PopSection(conf, index) ==
    LET Keep(e) == KeyOf(e) # SectionKey("Area", index) IN SelectSeq(conf, Keep)

\* renumber the Area sections 0, 1, ... in store order
reestructure_areas(conf) ==
    LET Rank(i) == Cardinality({j \in 1..(i - 1) : conf[j].prefix = "Area"}) IN
    [i \in 1..Len(conf) |->
        IF conf[i].prefix = "Area" THEN [conf[i] EXCEPT !.n = Rank(i)] ELSE conf[i]]

\* update_config: the store is replaced when the save succeeds
update_config(config_dict, success) == IF success THEN config_dict ELSE config

\* areas_ids.index(area_id), zero-based; -1 stands for ValueError
IndexOf(ids, x) ==
    IF \E i \in 1..Len(ids) : ids[i] = x
    THEN (CHOOSE i \in 1..Len(ids) : ids[i] = x /\ \A j \in 1..(i - 1) : ids[j] # x) - 1
    ELSE -1

\* --------------------------------------------------------- sidecar files

RulesKey == "occupancy_rules"

Absent == [st |-> "absent", data |-> <<>>]

\* a zero-byte file: what open(path, "w") leaves when nothing is dumped
Truncated == [st |-> "empty", data |-> <<>>]

JsonFile(data) == [st |-> "json", data |-> data]

HasKey(data, k) == k \in DOMAIN data

WithKey(data, k, v) ==
    [x \in DOMAIN data \cup {k} |-> IF x = k THEN v ELSE data[x]]

WithoutKey(data, k) == [x \in DOMAIN data \ {k} |-> data[x]]

\* OccupancyRuleListDTO.to_store_json
to_store_json(rules) == [occupancy_rules |-> rules]

\* OccupancyRuleListDTO.from_store_json
from_store_json(data) == IF HasKey(data, RulesKey) THEN data[RulesKey] ELSE <<>>

\* set_occupancy_rules on one file: the file afterwards, and whether it raised
set_occupancy_rules(doc, rules) ==
    IF doc.st = "empty"
    THEN [doc |-> doc, raised |-> TRUE]
    ELSE LET data == IF doc.st = "json" THEN doc.data ELSE <<>> IN
         [doc |-> JsonFile(WithKey(data, RulesKey, to_store_json(rules)[RulesKey])),
          raised |-> FALSE]

\* delete_area_occupancy_rules on one file: the file afterwards, and whether
\* it raised. The file is opened for writing before the key is deleted.
delete_area_occupancy_rules(doc) ==
    IF doc.st = "absent" THEN [doc |-> doc, raised |-> FALSE]
    ELSE IF doc.st = "empty" THEN [doc |-> doc, raised |-> TRUE]
    ELSE IF HasKey(doc.data, RulesKey)
    THEN [doc |-> JsonFile(WithoutKey(doc.data, RulesKey)), raised |-> FALSE]
    ELSE [doc |-> Truncated, raised |-> TRUE]

\* get_area_occupancy_rules: [kind, rules]
get_area_occupancy_rules(conf, files, area_id) ==
    IF ~\E i \in 1..Len(AreasOf(conf)) : AreasOf(conf)[i].id = area_id
    THEN [kind |-> "NotFoundArea", rules |-> <<>>]
    ELSE IF files[area_id].st = "absent" THEN [kind |-> "OK", rules |-> <<>>]
    ELSE IF files[area_id].st = "empty" THEN [kind |-> "Error", rules |-> <<>>]
    ELSE [kind |-> "OK", rules |-> from_store_json(files[area_id].data)]

\* ------------------------------------------------------------- validation

\* variant: the comparison without upper()
IsReserved_Exact(area_id) == area_id = ALL_AREAS

IsReserved(area_id) == Upper(area_id) = ALL_AREAS

\* variant: any() in place of all()
AllKnown_Any(cameras, camera_ids) ==
    \E x \in Range(Split(cameras, ",")) : x \in Range(camera_ids)

\* all(x in camera_ids for x in cameras.split(","))
AllKnown(cameras, camera_ids) ==
    \A x \in Range(Split(cameras, ",")) : x \in Range(camera_ids)

\* set(cameras.split(",")) - set(camera_ids)
NonExistentCameras(cameras, camera_ids) ==
    Range(Split(cameras, ",")) \ Range(camera_ids)

Reject(kind, detail) == [kind |-> kind, detail |-> detail]

Pass == Reject("pass", {})

\* variant: the cameras are validated before the id
CreateCheck_CamerasFirst(conf, new_area) ==
    IF ~AllKnown(new_area.cameras, CameraIdsOf(conf))
    THEN Reject("NotFoundCameras", NonExistentCameras(new_area.cameras, CameraIdsOf(conf)))
    ELSE IF new_area.id \in Range(AreaIdsOf(conf)) THEN Reject("Conflict", {})
    ELSE IF IsReserved(new_area.id) THEN Reject("BadRequest", {})
    ELSE Pass

\* the checks of create_area, in the handler's order
CreateCheck(conf, new_area) ==
    IF new_area.id \in Range(AreaIdsOf(conf)) THEN Reject("Conflict", {})
    ELSE IF IsReserved(new_area.id) THEN Reject("BadRequest", {})
    ELSE IF ~AllKnown(new_area.cameras, CameraIdsOf(conf))
    THEN Reject("NotFoundCameras", NonExistentCameras(new_area.cameras, CameraIdsOf(conf)))
    ELSE Pass

\* variant: the payload keeps the id it came with
ForceId_Keep(area_id, edited_area) == edited_area

\* edited_area.id = area_id
ForceId(area_id, edited_area) == [edited_area EXCEPT !.id = area_id]

\* the checks of edit_area, in the handler's order
EditCheck(conf, area_id, edited_area) ==
    IF IsReserved(area_id) THEN Reject("BadRequest", {})
    ELSE IF IndexOf(AreaIdsOf(conf), area_id) = -1 THEN Reject("NotFoundArea", {})
    ELSE IF ~AllKnown(edited_area.cameras, CameraIdsOf(conf))
    THEN Reject("NotFoundCameras", NonExistentCameras(edited_area.cameras, CameraIdsOf(conf)))
    ELSE Pass

\* the checks of delete_area, in the handler's order
DeleteCheck(conf, area_id) ==
    IF IsReserved(area_id) THEN Reject("BadRequest", {})
    ELSE IF IndexOf(AreaIdsOf(conf), area_id) = -1 THEN Reject("NotFoundArea", {})
    ELSE Pass

\* del area.occupancy_rules
StripRules(area) == [id |-> area.id, cameras |-> area.cameras]

\* variant: the index after the next one
NextIndex_Off(areas) == Len(areas) + 1

\* len(areas): the section index create_area writes
NextIndex(areas) == Len(areas)

\* --------------------------------------------------------------- requests

Procs == {1, 2}

IdleLoc == [area |-> [id |-> <<>>, cameras |-> <<>>, occupancy_rules |-> <<>>],
            n |-> 0, kind |-> "none", stamp |-> 0]

Done(op, area_id, kind, rules, saved) ==
    [op |-> op, id |-> area_id, kind |-> kind, rules |-> rules, saved |-> saved]

Saved(success) == IF success THEN "ok" ELSE "failed"

\* the Source sections of the store, one per camera
SourceEntries ==
    [i \in 1..Len(Sources) |->
        [prefix |-> "Source", n |-> i - 1, sec |-> [Id |-> Sources[i]]]]

Init ==
    /\ config = SourceEntries
    /\ sidecar = [a \in AllIds |-> Absent]
    /\ ruledirs = {}
    /\ logdirs = {}
    /\ confdirs = {}
    /\ last = Done("none", <<>>, "none", NoRules, "none")
    /\ pc = [p \in Procs |-> "idle"]
    /\ loc = [p \in Procs |-> IdleLoc]

\* how create_area ends once the checks passed and update_config returned
CreateKind(files, new_area, success) ==
    IF /\ new_area.occupancy_rules # NoRules
       /\ set_occupancy_rules(files[new_area.id], new_area.occupancy_rules).raised
    THEN "Error"
    ELSE IF success THEN "Created" ELSE "SaveFailed"

\* what create_area does to the files and directories after update_config
CreateFinish(new_area, success) ==
    LET rules == new_area.occupancy_rules
        wr == set_occupancy_rules(sidecar[new_area.id], rules)
        kind == CreateKind(sidecar, new_area, success)
    IN
    /\ IF rules # NoRules
       THEN /\ sidecar' = [sidecar EXCEPT ![new_area.id] = wr.doc]
            /\ ruledirs' = ruledirs \cup {new_area.id}
       ELSE UNCHANGED <<sidecar, ruledirs>>
    /\ IF kind = "Created"
       THEN /\ logdirs' = logdirs \cup {new_area.id}
            /\ confdirs' = confdirs \cup {new_area.id}
       ELSE UNCHANGED <<logdirs, confdirs>>

\* POST /areas
create_area(new_area, success) ==
    LET check == CreateCheck(config, new_area)
        areas == AreasOf(config)
        area_dict == map_to_config_file_format(StripRules(new_area))
        config_dict == SetSection(config, SectionKey("Area", NextIndex(areas)), area_dict)
    IN
    /\ UNCHANGED <<pc, loc>>
    /\ IF check.kind # "pass"
       THEN /\ UNCHANGED disk
            /\ last' = Done("create", new_area.id, check.kind, NoRules, "none")
       ELSE /\ config' = update_config(config_dict, success)
            /\ CreateFinish(new_area, success)
            /\ last' = Done("create", new_area.id, CreateKind(sidecar, new_area, success),
                            new_area.occupancy_rules, Saved(success))

\* PUT /areas/{area_id}
edit_area(area_id, edited_area, success) ==
    LET check == EditCheck(config, area_id, edited_area)
        edited == ForceId(area_id, edited_area)
        index == IndexOf(AreaIdsOf(config), area_id)
        rules == edited_area.occupancy_rules
        area_dict == map_to_config_file_format(StripRules(edited))
        config_dict == SetSection(config, SectionKey("Area", index), area_dict)
        wr == IF rules # NoRules
              THEN set_occupancy_rules(sidecar[edited.id], rules)
              ELSE delete_area_occupancy_rules(sidecar[area_id])
    IN
    /\ UNCHANGED <<pc, loc, logdirs, confdirs>>
    /\ IF check.kind # "pass"
       THEN /\ UNCHANGED <<config, sidecar, ruledirs>>
            /\ last' = Done("edit", area_id, check.kind, NoRules, "none")
       ELSE /\ config' = update_config(config_dict, success)
            /\ sidecar' = [sidecar EXCEPT ![area_id] = wr.doc]
            /\ ruledirs' = IF rules # NoRules THEN ruledirs \cup {area_id} ELSE ruledirs
            /\ last' = Done("edit", area_id,
                            IF wr.raised THEN "Error"
                            ELSE IF success THEN "OK" ELSE "SaveFailed",
                            rules, Saved(success))

\* DELETE /areas/{area_id}
delete_area(area_id, success) ==
    LET check == DeleteCheck(config, area_id)
        index == IndexOf(AreaIdsOf(config), area_id)
        config_dict == reestructure_areas(PopSection(config, index))
        wr == delete_area_occupancy_rules(sidecar[area_id])
    IN
    /\ UNCHANGED <<pc, loc, ruledirs>>
    /\ IF check.kind # "pass"
       THEN /\ UNCHANGED <<config, sidecar, logdirs, confdirs>>
            /\ last' = Done("delete", area_id, check.kind, NoRules, "none")
       ELSE /\ config' = update_config(config_dict, success)
            /\ sidecar' = [sidecar EXCEPT ![area_id] = wr.doc]
            /\ IF wr.raised
               THEN /\ UNCHANGED <<logdirs, confdirs>>
                    /\ last' = Done("delete", area_id, "Error", NoRules, Saved(success))
               ELSE IF area_id \notin logdirs
               THEN /\ UNCHANGED <<logdirs, confdirs>>
                    /\ last' = Done("delete", area_id, "Error", NoRules, Saved(success))
               ELSE IF area_id \notin confdirs
               THEN /\ logdirs' = logdirs \ {area_id}
                    /\ UNCHANGED confdirs
                    /\ last' = Done("delete", area_id, "Error", NoRules, Saved(success))
               ELSE /\ logdirs' = logdirs \ {area_id}
                    /\ confdirs' = confdirs \ {area_id}
                    /\ last' = Done("delete", area_id,
                                    IF success THEN "NoContent" ELSE "SaveFailed",
                                    NoRules, Saved(success))

\* ",".join(camera ids)
get_all_cameras_ids(conf) == Join(CameraIdsOf(conf), ",")

\* the virtual area of all cameras
all_cameras_area(conf) ==
    [violation_threshold |-> -1, notify_every_minutes |-> -1,
     enable_slack_notifications |-> FALSE, daily_report |-> FALSE,
     occupancy_threshold |-> -1, id |-> ALL_AREAS, name |-> ALL_AREAS,
     cameras |-> get_all_cameras_ids(conf)]

\* what GET /areas/{area_id} answers: [kind, body]
GetResponse(conf, files, area_id) ==
    IF IsReserved(area_id) THEN [kind |-> "OK", body |-> all_cameras_area(conf)]
    ELSE LET i == IndexOf(AreaIdsOf(conf), area_id)
             got == get_area_occupancy_rules(conf, files, area_id)
         IN
         IF i = -1 THEN [kind |-> "NotFoundArea", body |-> <<>>]
         ELSE IF got.kind # "OK" THEN [kind |-> got.kind, body |-> <<>>]
         ELSE [kind |-> "OK",
               body |-> [id |-> AreasOf(conf)[i + 1].id,
                         cameras |-> AreasOf(conf)[i + 1].cameras,
                         occupancy_rules |-> got.rules]]

\* GET /areas/{area_id}
get_area(area_id) ==
    /\ UNCHANGED <<disk, pc, loc>>
    /\ last' = Done("get", area_id, GetResponse(config, sidecar, area_id).kind,
                    NoRules, "none")

\* GET /areas
list_areas ==
    /\ UNCHANGED <<disk, pc, loc>>
    /\ last' = Done("list", <<>>, "OK", NoRules, "none")

\* A rejected request neither reads its rules nor calls update_config, so
\* one representative of each is enough for it.
RulesFor(passes, rules) == IF passes THEN rules ELSE {NoRules}

SavesFor(passes) == IF passes THEN BOOLEAN ELSE {TRUE}

Payload(area_id, cameras, rules) ==
    [id |-> area_id, cameras |-> cameras, occupancy_rules |-> rules]

\* POST with every payload over ids and rules
PostRequest(ids, rules) ==
    \E area_id \in ids, cameras \in CameraLists :
        LET passes == CreateCheck(config, Payload(area_id, cameras, NoRules)).kind = "pass" IN
        \E r \in RulesFor(passes, rules), success \in SavesFor(passes) :
            create_area(Payload(area_id, cameras, r), success)

\* PUT with every path id in ids and every payload over bodyIds and rules
PutRequest(ids, bodyIds, rules) ==
    \E area_id \in ids, cameras \in CameraLists :
        LET passes == EditCheck(config, area_id, Payload(area_id, cameras, NoRules)).kind = "pass" IN
        \E body_id \in (IF passes THEN bodyIds ELSE {area_id}),
           r \in RulesFor(passes, rules), success \in SavesFor(passes) :
            edit_area(area_id, Payload(body_id, cameras, r), success)

DeleteRequest(ids) ==
    \E area_id \in ids :
        \E success \in SavesFor(DeleteCheck(config, area_id).kind = "pass") :
            delete_area(area_id, success)

GetRequest(ids) == \E area_id \in ids : get_area(area_id)

\* requests served one at a time, each run to completion
Next ==
    \/ PostRequest(PlainIds \cup ReservedIds, {NoRules} \cup RuleLists)
    \/ PutRequest(PlainIds \cup ReservedIds, PlainIds, {NoRules} \cup RuleLists)
    \/ DeleteRequest(PlainIds \cup ReservedIds)
    \/ GetRequest(PlainIds \cup ReservedIds)
    \/ list_areas

\* the same requests over three storable ids, without occupancy rules
NextOrder ==
    \/ PostRequest(WideIds, {NoRules})
    \/ PutRequest(WideIds, WideIds, {NoRules})
    \/ DeleteRequest(WideIds)
    \/ GetRequest(WideIds)
    \/ list_areas

Spec == Init /\ [][Next]_vars

SpecOrder == Init /\ [][NextOrder]_vars

\* ----------------------------------- the rule store's functions on their own

\* well-formed sidecar documents: with or without rules, with or without
\* a key this module does not write
SidecarDocs ==
    {Absent} \cup
    {JsonFile(d) : d \in
        {<<>>, [other |-> <<0>>]} \cup
        {[occupancy_rules |-> r] : r \in RuleLists} \cup
        {[occupancy_rules |-> r, other |-> <<0>>] : r \in RuleLists}}

InitRules ==
    /\ config = SourceEntries
    /\ sidecar \in {f \in [AllIds -> SidecarDocs] : \A a \in AllIds \ PlainIds : f[a] = Absent}
    /\ ruledirs = {a \in AllIds : sidecar[a] # Absent}
    /\ logdirs = {}
    /\ confdirs = {}
    /\ last = Done("none", <<>>, "none", NoRules, "none")
    /\ pc = [p \in Procs |-> "idle"]
    /\ loc = [p \in Procs |-> IdleLoc]

SetRulesCall(area_id, rules) ==
    LET wr == set_occupancy_rules(sidecar[area_id], rules) IN
    /\ sidecar' = [sidecar EXCEPT ![area_id] = wr.doc]
    /\ ruledirs' = ruledirs \cup {area_id}
    /\ last' = Done("set_rules", area_id, IF wr.raised THEN "Error" ELSE "OK", rules, "none")
    /\ UNCHANGED <<config, logdirs, confdirs, pc, loc>>

DeleteRulesCall(area_id) ==
    LET wr == delete_area_occupancy_rules(sidecar[area_id]) IN
    /\ sidecar' = [sidecar EXCEPT ![area_id] = wr.doc]
    /\ last' = Done("delete_rules", area_id, IF wr.raised THEN "Error" ELSE "OK",
                    NoRules, "none")
    /\ UNCHANGED <<config, ruledirs, logdirs, confdirs, pc, loc>>

NextRules ==
    \/ \E area_id \in PlainIds, rules \in RuleLists : SetRulesCall(area_id, rules)
    \/ \E area_id \in PlainIds : DeleteRulesCall(area_id)

SpecRules == InitRules /\ [][NextRules]_vars

\* ------------------------------------ two create requests, step by step

OlderArea == <<"a", "l">>

\* the store is empty or already holds one area
InitConc ==
    /\ \E held \in BOOLEAN :
          /\ config = IF held
                      THEN SetSection(SourceEntries, SectionKey("Area", 0),
                                      [Id |-> OlderArea, Cameras |-> <<"a">>])
                      ELSE SourceEntries
          /\ logdirs = IF held THEN {OlderArea} ELSE {}
          /\ confdirs = IF held THEN {OlderArea} ELSE {}
    /\ sidecar = [a \in AllIds |-> Absent]
    /\ ruledirs = {}
    /\ last = Done("none", <<>>, "none", NoRules, "none")
    /\ pc = [p \in Procs |-> "idle"]
    /\ loc = [p \in Procs |-> IdleLoc]

\* the request arrives
CStart(p, new_area) ==
    /\ pc[p] = "idle"
    /\ pc' = [pc EXCEPT ![p] = "check"]
    /\ loc' = [loc EXCEPT ![p].area = new_area]
    /\ UNCHANGED <<disk, last>>

\* lines 77-94: read the areas, keep their count, validate
CCheck(p) ==
    LET check == CreateCheck(config, loc[p].area) IN
    /\ pc[p] = "check"
    /\ IF check.kind # "pass"
       THEN /\ pc' = [pc EXCEPT ![p] = "done"]
            /\ loc' = [loc EXCEPT ![p].kind = check.kind]
       ELSE /\ pc' = [pc EXCEPT ![p] = "save"]
            /\ loc' = [loc EXCEPT ![p].n = NextIndex(AreasOf(config))]
    /\ UNCHANGED <<disk, last>>

\* variant: the count of the store as it is when the section is written
SaveIndex_Current(p, conf) == Len(AreasOf(conf))

\* the section index create_area writes: the count it read before validating
SaveIndex(p, conf) == loc[p].n

\* lines 95-101: reload the store, set the section, save
CSave(p, success) ==
    LET area_dict == map_to_config_file_format(StripRules(loc[p].area))
        config_dict == SetSection(config, SectionKey("Area", SaveIndex(p, config)), area_dict)
    IN
    /\ pc[p] = "save"
    /\ config' = update_config(config_dict, success)
    /\ pc' = [pc EXCEPT ![p] = IF success THEN "finish" ELSE "finish_failed"]
    /\ loc' = [loc EXCEPT ![p].stamp = 1 + Cardinality({q \in Procs : loc[q].stamp > 0})]
    /\ UNCHANGED <<sidecar, ruledirs, logdirs, confdirs, last>>

\* lines 103-115: rules, directories, response
CFinish(p) ==
    LET success == pc[p] = "finish" IN
    /\ pc[p] \in {"finish", "finish_failed"}
    /\ CreateFinish(loc[p].area, success)
    /\ pc' = [pc EXCEPT ![p] = "done"]
    /\ loc' = [loc EXCEPT ![p].kind = CreateKind(sidecar, loc[p].area, success)]
    /\ UNCHANGED <<config, last>>

ConcIds == PlainIds \cup {ALL_AREAS}

ConcCameras == {<<"a">>, <<"a", ",", "z">>}

NextConc ==
    \/ \E p \in Procs, area_id \in ConcIds, cameras \in ConcCameras,
          r \in {NoRules} \cup RuleLists : CStart(p, Payload(area_id, cameras, r))
    \/ \E p \in Procs : CCheck(p)
    \/ \E p \in Procs, success \in BOOLEAN : CSave(p, success)
    \/ \E p \in Procs : CFinish(p)

SpecConc == InitConc /\ [][NextConc]_vars

\* ================================================================ properties

StoredIds == Range(AreaIdsOf(config))

AreaSections == SectionsOf(config, "Area")

\* the comma-separated entries of a camera list, read off the positions of
\* its commas
TokensOf(s) ==
    { SubSeq(s, i, j) : <<i, j>> \in
        { ij \in (1..(Len(s) + 1)) \X (0..Len(s)) :
            /\ ij[1] <= ij[2] + 1
            /\ (ij[1] = 1 \/ s[ij[1] - 1] = ",")
            /\ (ij[2] = Len(s) \/ s[ij[2] + 1] = ",")
            /\ \A k \in ij[1]..ij[2] : s[k] # "," } }

KnownCameras == {Sources[k] : k \in 1..Len(Sources)}

Missing(cameras) == TokensOf(cameras) \ KnownCameras

RequestIds == PlainIds \cup ReservedIds

\* ------------------------------------------------------------------- C1
\* C1: no two area sections of the config store hold the same id, in every
\* state reached by Create, Update and Delete requests run to completion.
C1_UniqueIds ==
    \A i, j \in 1..Len(AreaSections) :
        i # j => AreaSections[i].sec.Id # AreaSections[j].sec.Id

\* two areas are stored and an Update has just rewritten one of them
C1_Witness ==
    /\ Len(AreaSections) = 2
    /\ last.op = "edit"
    /\ last.kind = "OK"

\* ------------------------------------------------------------------- C2
C2_Named == \A i \in 1..Len(AreaSections) : AreaSections[i].n = i - 1

C2_Step ==
    LET old == AreaSections
        new == SectionsOf(config', "Area")
        i == IndexOf(AreaIdsOf(config), last'.id)
    IN
    /\ (last'.op = "create" /\ last'.saved = "ok") =>
          /\ Len(new) = Len(old) + 1
          /\ SubSeq(new, 1, Len(old)) = old
          /\ new[Len(new)].n = Len(old)
          /\ new[Len(new)].sec.Id = last'.id
    /\ (last'.op = "edit" /\ last'.saved = "ok") =>
          /\ Len(new) = Len(old)
          /\ \A k \in 1..Len(old) : k # i + 1 => new[k] = old[k]
          /\ new[i + 1].n = i
          /\ new[i + 1].sec.Id = last'.id
    /\ (last'.op = "delete" /\ last'.saved = "ok") =>
          /\ Len(new) = Len(old) - 1
          /\ {new[k].n : k \in 1..Len(new)} = 0..(Len(old) - 2)

\* C2: the area sections are named exactly Area_0 .. Area_{n-1}; Create
\* writes section n, Update rewrites the section where the id was found,
\* Delete removes one section and leaves no gap.
C2_Contiguous == [](C2_Named) /\ [][C2_Step]_vars

\* three areas were stored and a Delete has just renumbered the two left
C2_Witness ==
    /\ Len(AreaSections) = 2
    /\ last.op = "delete"
    /\ last.saved = "ok"

\* ------------------------------------------------------------------- C3
C3_StoredKnown ==
    \A i \in 1..Len(AreaSections) : TokensOf(AreaSections[i].sec.Cameras) \subseteq KnownCameras

C3_WritesNothing == last'.kind = "NotFoundCameras" => UNCHANGED disk

\* C3 as stated: every Create or Update that names an unknown camera id is
\* answered NotFound with exactly the missing ids.
C3_Original ==
    \A area_id \in RequestIds, cameras \in CameraLists :
        Missing(cameras) # {} =>
            /\ CreateCheck(config, Payload(area_id, cameras, NoRules))
                   = Reject("NotFoundCameras", Missing(cameras))
            /\ EditCheck(config, area_id, Payload(area_id, cameras, NoRules))
                   = Reject("NotFoundCameras", Missing(cameras))

C3_Rejects ==
    \A area_id \in RequestIds, cameras \in CameraLists :
        (Missing(cameras) # {} /\ Upper(area_id) # <<"A", "L", "L">>) =>
            /\ area_id \notin StoredIds =>
                  CreateCheck(config, Payload(area_id, cameras, NoRules))
                      = Reject("NotFoundCameras", Missing(cameras))
            /\ area_id \in StoredIds =>
                  EditCheck(config, area_id, Payload(area_id, cameras, NoRules))
                      = Reject("NotFoundCameras", Missing(cameras))

\* C3 (amended): every stored camera list names existing cameras only; a
\* Create or Update that passes the id checks preceding camera validation
\* and names an unknown camera id is answered NotFound with exactly the
\* missing ids, and writes nothing.
C3_Cameras == [](C3_StoredKnown /\ C3_Rejects) /\ [][C3_WritesNothing]_vars

\* an area with two cameras is stored and a request was just refused for
\* its cameras
C3_Witness ==
    /\ last.kind = "NotFoundCameras"
    /\ \E i \in 1..Len(AreaSections) : Cardinality(TokensOf(AreaSections[i].sec.Cameras)) = 2

\* ------------------------------------------------------------------- C4
C4_NeverStored == \A a \in StoredIds : Upper(a) # <<"A", "L", "L">>

C4_GetVirtual ==
    \A area_id \in ReservedIds :
        LET r == GetResponse(config, sidecar, area_id) IN
        /\ r.kind = "OK"
        /\ r.body.id = <<"A", "L", "L">>
        /\ r.body.cameras = <<"a", ",", "b">>
        /\ r.body.violation_threshold = -1
        /\ r.body.occupancy_threshold = -1
        /\ ~r.body.enable_slack_notifications

C4_Refused ==
    (last'.op \in {"create", "edit", "delete"} /\ Upper(last'.id) = <<"A", "L", "L">>) =>
        /\ last'.kind = "BadRequest"
        /\ UNCHANGED disk

\* C4: no area with an id equal to "ALL" case-insensitively is ever stored;
\* Create, Update and Delete with such an id are answered BadRequest and
\* change nothing; Get of such an id answers the virtual area.
C4_Reserved == [](C4_NeverStored /\ C4_GetVirtual) /\ [][C4_Refused]_vars

\* an Update addressed to "all" was refused while an area is stored
C4_Witness ==
    /\ last.op = "edit"
    /\ last.id = <<"a", "l", "l">>
    /\ last.kind = "BadRequest"
    /\ Len(AreaSections) >= 1

\* ------------------------------------------------------------------- C5
C5_Order ==
    \A area_id \in RequestIds, cameras \in CameraLists :
        LET kind == CreateCheck(config, Payload(area_id, cameras, NoRules)).kind IN
        /\ area_id \in StoredIds => kind = "Conflict"
        /\ area_id \in ReservedIds => kind = "BadRequest"
        /\ kind = "NotFoundCameras" =>
              (area_id \notin StoredIds /\ Upper(area_id) # <<"A", "L", "L">>)

C5_Answered ==
    last'.op = "create" =>
        /\ last'.id \in StoredIds => last'.kind = "Conflict"
        /\ last'.id \in ReservedIds => last'.kind = "BadRequest"

\* C5: Create with the id of a stored area is answered Conflict and Create
\* with id "all", "ALL" or "All" is answered BadRequest, whatever cameras
\* the payload names; camera validation comes after both checks.
C5_CreateOrder == [](C5_Order) /\ [][C5_Answered]_vars

\* a Create was refused as a duplicate, and it would be refused as one with
\* unknown cameras too
C5_Witness ==
    /\ last.op = "create"
    /\ last.kind = "Conflict"
    /\ CreateCheck(config, Payload(last.id, <<"z", ",">>, NoRules)).kind = "Conflict"

\* ------------------------------------------------------------------- C6
C6_Step ==
    (last'.op = "delete" /\ last'.kind = "NoContent") =>
        LET old == get_areas
            new == AreasOf(config')
            i == CHOOSE k \in 1..Len(old) : old[k].id = last'.id
        IN
        /\ Len(new) = Len(old) - 1
        /\ \A k \in 1..Len(new) : new[k] = IF k < i THEN old[k] ELSE old[k + 1]
        /\ \A k \in 1..Len(new) : SectionsOf(config', "Area")[k].n = k - 1
        /\ \A k \in 1..Len(new) :
              GetResponse(config', sidecar', new[k].id)
                  = GetResponse(config, sidecar, new[k].id)

\* C6: a successful Delete of the area at index i leaves the other n-1
\* areas listed at indices 0..n-2 in their former order, each with its id
\* and fields, and Get of each answers as before.
C6_DeleteKeepsOthers == [][C6_Step]_vars

\* the area in the middle of three was deleted, the outer two are left
C6_Witness ==
    /\ last.op = "delete"
    /\ last.kind = "NoContent"
    /\ last.id = <<"B">>
    /\ AreaIdsOf(config) = << <<"b">>, <<"a", "l">> >>
    /\ get_areas[1].cameras # get_areas[2].cameras

\* ------------------------------------------------------------------- C7
\* C7: after an Update that passed its checks and whose update_config
\* succeeded, Get of the id succeeds and answers exactly the rules the
\* Update carried (the empty list when it carried none).
C7_GetAfterUpdate ==
    (last.op = "edit" /\ last.saved = "ok") =>
        LET r == GetResponse(config, sidecar, last.id) IN
        /\ r.kind = "OK"
        /\ r.body.occupancy_rules = last.rules

\* ------------------------------------------------------------------- C8
C8_Step ==
    last'.op = "delete_rules" =>
        LET before == sidecar[last'.id]
            after == sidecar'[last'.id]
        IN
        /\ last'.kind = "OK"
        /\ before.st = "json" =>
              /\ after.st = "json"
              /\ RulesKey \notin DOMAIN after.data
              /\ DOMAIN after.data = DOMAIN before.data \ {RulesKey}
              /\ \A k \in DOMAIN after.data : after.data[k] = before.data[k]
        /\ before.st = "absent" => UNCHANGED disk

\* C8: delete_area_occupancy_rules completes without error from every
\* sidecar state; an existing file is left a well-formed document without
\* the occupancy_rules key and with its other keys; an absent file stays
\* absent.
C8_DeleteRulesTotal == [][C8_Step]_vars

C10_Consistent ==
    \A a \in AllIds :
        /\ (RulesKey \in DOMAIN sidecar[a].data \/ a \in logdirs \/ a \in confdirs)
              => a \in StoredIds
        /\ a \in StoredIds => (a \in logdirs /\ a \in confdirs)

C10_Step ==
    /\ last'.saved = "failed" => UNCHANGED disk
    /\ C10_Consistent'

\* C10: a request whose update_config fails changes neither the store nor
\* any sidecar nor any directory, so rules and directories exist only for
\* stored ids and every stored area has its directories.
C10_FailedSaveChangesNothing == [][C10_Step]_vars

====
